---- MODULE Spec2Model ----
(***************************************************************************)
(* Model of flwr.server.history.History (src/py/flwr/server/history.py):   *)
(* two loss series, three metric tables, five append methods and the two   *)
(* read-side projections __repr__ (text report) and repr_json (structured  *)
(* report).                                                                *)
(*                                                                         *)
(* A Python list is a sequence, a tuple (round, value) is <<round, value>>,*)
(* a dict is a function whose DOMAIN is its key set, a str is a string.    *)
(* Scalar values are drawn from small integers (numeric scalars, which is  *)
(* what reformat_json's numpy conversion is written for).                  *)
(***************************************************************************)
EXTENDS Integers, Sequences, FiniteSets, TLC

VARIABLES
    losses_distributed,       \* self.losses_distributed
    losses_centralized,       \* self.losses_centralized
    metrics_distributed_fit,  \* self.metrics_distributed_fit
    metrics_distributed,      \* self.metrics_distributed
    metrics_centralized,      \* self.metrics_centralized
    reprOut,                  \* <<s>>: s returned by the last __repr__ since the last append
    jsonOut,                  \* <<d>>: d returned by the last repr_json since the last append
    calls                     \* history: number of calls made to each append method (per key)

ledger == <<losses_distributed, losses_centralized, metrics_distributed_fit,
            metrics_distributed, metrics_centralized>>

vars == <<losses_distributed, losses_centralized, metrics_distributed_fit,
          metrics_distributed, metrics_centralized, reprOut, jsonOut, calls>>

-----------------------------------------------------------------------------
(* Bounds and input domains *)

\* total number of append calls in a run
MaxCalls == 3

\* number of append calls in a run that interleaves the read methods
MaxReadCalls == 2

\* round indices passed by the caller
RoundIndex == {0, 1}

Scalars == {3, 9}

MetricNames == {"accuracy", "f1"}

\* the metric names in ascending str order (what sorted() yields)
KeyOrder == <<"accuracy", "f1">>

EmptyDict == [k \in {} |-> 0]

\* the metrics arguments of a call: the empty dict, one name with either
\* value, the other name alone, and both names with different values
MetricsArgs ==
    {EmptyDict,
     [accuracy |-> 3],
     [accuracy |-> 9],
     [f1 |-> 9],
     [accuracy |-> 9, f1 |-> 3]}

-----------------------------------------------------------------------------
(* Python helpers *)

\* dict.update(other)
Update(d, other) ==
    [k \in (DOMAIN d) \cup (DOMAIN other) |->
        IF k \in DOMAIN other THEN other[k] ELSE d[k]]

\* the keys of a dict in the order a for-loop visits them
KeysOf(d) == SelectSeq(KeyOrder, LAMBDA k : k \in DOMAIN d)

\* str(n) for an int
str(n) == ToString(n)

\* repr of a (round, value) tuple
repr_tuple(e) == "(" \o str(e[1]) \o ", " \o str(e[2]) \o ")"

\* sep.join(parts)
RECURSIVE Join(_, _)
Join(parts, sep) ==
    IF parts = <<>> THEN ""
    ELSE IF Len(parts) = 1 THEN parts[1]
    ELSE parts[1] \o sep \o Join(Tail(parts), sep)

\* reduce(lambda a, b: a + b, parts) on a non-empty list of str
RECURSIVE reduce_concat(_)
reduce_concat(parts) ==
    IF Len(parts) = 1 THEN parts[1]
    ELSE reduce_concat(SubSeq(parts, 1, Len(parts) - 1)) \o parts[Len(parts)]

RECURSIVE Spaces(_)
Spaces(n) == IF n <= 0 THEN "" ELSE " " \o Spaces(n - 1)

\* repr of a list of tuples
repr_list(l) == "[" \o Join([i \in 1 .. Len(l) |-> repr_tuple(l[i])], ", ") \o "]"

\* repr of a str key
repr_key(k) == "'" \o k \o "'"

\* repr of a metric table, keys sorted (pprint's _safe_repr with sort_dicts)
repr_dict(d) ==
    "{" \o Join([i \in 1 .. Len(KeysOf(d)) |->
                    repr_key(KeysOf(d)[i]) \o ": " \o repr_list(d[KeysOf(d)[i]])], ", ")
        \o "}"

\* pprint's default line width
Width == 80

\* PrettyPrinter._format of a list at the given indent: the repr when it
\* fits, else one item per line
pformat_list(l, indent, allowance) ==
    IF Len(repr_list(l)) > Width - indent - allowance
    THEN "[" \o Join([i \in 1 .. Len(l) |-> repr_tuple(l[i])],
                     ",\n" \o Spaces(indent + 1)) \o "]"
    ELSE repr_list(l)

\* pprint.pformat of a metric table: the repr when it fits in Width, else
\* one key per line
pformat(d) ==
    IF Len(repr_dict(d)) > Width
    THEN "{" \o Join([i \in 1 .. Len(KeysOf(d)) |->
                        repr_key(KeysOf(d)[i]) \o ": "
                        \o pformat_list(d[KeysOf(d)[i]],
                                        1 + Len(repr_key(KeysOf(d)[i])) + 2, 1)],
                     ",\n ") \o "}"
    ELSE repr_dict(d)

-----------------------------------------------------------------------------
(* History.__init__ *)

NoCalls ==
    [loss_distributed |-> 0, loss_centralized |-> 0,
     fit |-> [k \in MetricNames |-> 0],
     evaluate |-> [k \in MetricNames |-> 0],
     centralized |-> [k \in MetricNames |-> 0],
     total |-> 0]

Init ==
    /\ losses_distributed = <<>>
    /\ losses_centralized = <<>>
    /\ metrics_distributed_fit = EmptyDict
    /\ metrics_distributed = EmptyDict
    /\ metrics_centralized = EmptyDict
    /\ reprOut = <<>>
    /\ jsonOut = <<>>
    /\ calls = NoCalls

-----------------------------------------------------------------------------
(* The append methods *)

\* mutant: the loss series kept sorted by round index
RECURSIVE loss_append_sorted(_, _, _)
loss_append_sorted(series, server_round, loss) ==
    IF series = <<>> THEN << <<server_round, loss>> >>
    ELSE IF series[Len(series)][1] <= server_round
    THEN Append(series, <<server_round, loss>>)
    ELSE Append(loss_append_sorted(SubSeq(series, 1, Len(series) - 1), server_round, loss),
                series[Len(series)])

\* list.append((server_round, loss)) of the two add_loss_* methods
loss_append(series, server_round, loss) == Append(series, <<server_round, loss>>)

\* mutant: a value reported again for the round stored last overwrites it
metrics_step_overwrite(table, server_round, metrics, key) ==
    IF key \notin DOMAIN table
    THEN Update(table, [k \in {key} |-> << <<server_round, metrics[key]>> >>])
    ELSE IF table[key][Len(table[key])][1] = server_round
    THEN [table EXCEPT ![key][Len(table[key])] = <<server_round, metrics[key]>>]
    ELSE [table EXCEPT ![key] = Append(@, <<server_round, metrics[key]>>)]

\* mutant: the disabled value filter restored after the key is created
metrics_step_filtered(table, server_round, metrics, key) ==
    LET created == IF key \notin DOMAIN table
                   THEN Update(table, [k \in {key} |-> <<>>])
                   ELSE table
    IN  IF metrics[key] = 3 THEN created
        ELSE [created EXCEPT ![key] = Append(@, <<server_round, metrics[key]>>)]

\* one pass of the body of `for key in metrics:` on a metric table
metrics_step(table, server_round, metrics, key) ==
    LET created == IF key \notin DOMAIN table
                   THEN Update(table, [k \in {key} |-> <<>>])
                   ELSE table
    IN  [created EXCEPT ![key] = Append(@, <<server_round, metrics[key]>>)]

\* mutant: the table is rebuilt from the metrics of the call
RECURSIVE metrics_loop_rebuild(_, _, _, _)
metrics_loop_rebuild(table, server_round, metrics, keys) ==
    IF keys = <<>> THEN [k \in (DOMAIN table) \cap (DOMAIN metrics) |-> table[k]]
    ELSE LET rest == metrics_loop_rebuild(table, server_round, metrics, Tail(keys))
             key == Head(keys)
         IN  Update(rest, [k \in {key} |->
                 Append(IF key \in DOMAIN table THEN table[key] ELSE <<>>,
                        <<server_round, metrics[key]>>)])

\* the loop `for key in metrics:` over the keys still to visit
RECURSIVE metrics_loop(_, _, _, _)
metrics_loop(table, server_round, metrics, keys) ==
    IF keys = <<>> THEN table
    ELSE metrics_loop(metrics_step(table, server_round, metrics, Head(keys)),
                      server_round, metrics, Tail(keys))

\* history bookkeeping of a call to a metrics append: one more call per key of metrics
Counted(count, metrics) ==
    [k \in MetricNames |-> IF k \in DOMAIN metrics THEN count[k] + 1 ELSE count[k]]

add_loss_distributed(server_round, loss) ==
    /\ calls.total < MaxCalls
    /\ losses_distributed' = loss_append(losses_distributed, server_round, loss)
    /\ calls' = [calls EXCEPT !.loss_distributed = @ + 1, !.total = @ + 1]
    /\ reprOut' = <<>>
    /\ jsonOut' = <<>>
    /\ UNCHANGED <<losses_centralized, metrics_distributed_fit,
                   metrics_distributed, metrics_centralized>>

add_loss_centralized(server_round, loss) ==
    /\ calls.total < MaxCalls
    /\ losses_centralized' = loss_append(losses_centralized, server_round, loss)
    /\ calls' = [calls EXCEPT !.loss_centralized = @ + 1, !.total = @ + 1]
    /\ reprOut' = <<>>
    /\ jsonOut' = <<>>
    /\ UNCHANGED <<losses_distributed, metrics_distributed_fit,
                   metrics_distributed, metrics_centralized>>

add_metrics_distributed_fit(server_round, metrics) ==
    /\ calls.total < MaxCalls
    /\ metrics_distributed_fit' =
           metrics_loop(metrics_distributed_fit, server_round, metrics, KeysOf(metrics))
    /\ calls' = [calls EXCEPT !.fit = Counted(@, metrics), !.total = @ + 1]
    /\ reprOut' = <<>>
    /\ jsonOut' = <<>>
    /\ UNCHANGED <<losses_distributed, losses_centralized,
                   metrics_distributed, metrics_centralized>>

\* mutant: the evaluate metrics also land in the fit table
add_metrics_distributed_both(server_round, metrics) ==
    /\ calls.total < MaxCalls
    /\ metrics_distributed' =
           metrics_loop(metrics_distributed, server_round, metrics, KeysOf(metrics))
    /\ metrics_distributed_fit' =
           metrics_loop(metrics_distributed_fit, server_round, metrics, KeysOf(metrics))
    /\ calls' = [calls EXCEPT !.evaluate = Counted(@, metrics), !.total = @ + 1]
    /\ reprOut' = <<>>
    /\ jsonOut' = <<>>
    /\ UNCHANGED <<losses_distributed, losses_centralized, metrics_centralized>>

add_metrics_distributed(server_round, metrics) ==
    /\ calls.total < MaxCalls
    /\ metrics_distributed' =
           metrics_loop(metrics_distributed, server_round, metrics, KeysOf(metrics))
    /\ calls' = [calls EXCEPT !.evaluate = Counted(@, metrics), !.total = @ + 1]
    /\ reprOut' = <<>>
    /\ jsonOut' = <<>>
    /\ UNCHANGED <<losses_distributed, losses_centralized,
                   metrics_distributed_fit, metrics_centralized>>

add_metrics_centralized(server_round, metrics) ==
    /\ calls.total < MaxCalls
    /\ metrics_centralized' =
           metrics_loop(metrics_centralized, server_round, metrics, KeysOf(metrics))
    /\ calls' = [calls EXCEPT !.centralized = Counted(@, metrics), !.total = @ + 1]
    /\ reprOut' = <<>>
    /\ jsonOut' = <<>>
    /\ UNCHANGED <<losses_distributed, losses_centralized,
                   metrics_distributed_fit, metrics_distributed>>

-----------------------------------------------------------------------------
(* The read methods *)

\* np.array(bad_array): a 2-D array with one row [round, value] per tuple
np_array(bad_array) == [i \in 1 .. Len(bad_array) |-> <<bad_array[i][1], bad_array[i][2]>>]

\* temp_all[from:, 1].tolist(), from counted from 0 as in the source
column1_from(temp_all, from) ==
    [i \in 1 .. (Len(temp_all) - from) |-> temp_all[i + from][2]]

\* History.reformat_json; the index fault of temp_all[0,0] on an empty
\* array is the value IndexError
IndexError == [error |-> "IndexError"]

\* mutant: a round 0 stored anywhere is taken as the start value
reformat_json_any_zero(bad_array) ==
    LET temp_all == np_array(bad_array)
        zeros == {i \in 1 .. Len(temp_all) : temp_all[i][1] = 0}
    IN  IF Len(temp_all) = 0 THEN IndexError
        ELSE IF zeros # {}
        THEN LET z == CHOOSE i \in zeros : \A j \in zeros : i <= j
             IN  [rounds |-> [i \in 1 .. (Len(temp_all) - 1) |->
                                 temp_all[IF i < z THEN i ELSE i + 1][2]],
                  start |-> temp_all[z][2]]
        ELSE [rounds |-> column1_from(temp_all, 0)]

reformat_json(bad_array) ==
    LET temp_all == np_array(bad_array)
    IN  IF Len(temp_all) = 0 THEN IndexError
        ELSE IF temp_all[1][1] = 0
        THEN Update(Update(EmptyDict, [rounds |-> column1_from(temp_all, 1)]),
                    [start |-> temp_all[1][2]])
        ELSE Update(EmptyDict, [rounds |-> column1_from(temp_all, 0)])

\* the inner loop of repr_json: metric name -> reformat_json of its series
reformat_table(table) == [x \in DOMAIN table |-> reformat_json(table[x])]

H_loss_distributed == "History (loss, distributed)"
H_loss_centralized == "History (loss, centralized)"
H_metrics_fit == "History (metrics, distributed, fit)"
H_metrics_distributed == "History (metrics, distributed, evaluate)"
H_metrics_centralized == "History (metrics, centralized)"

\* rep.update({name: value}) guarded by `if channel:`
section(rep, present, name, value) ==
    IF present THEN Update(rep, [k \in {name} |-> value]) ELSE rep

\* mutant: the evaluate section built from the fit table
repr_json_of_copied(ld, lc, mf, md, mc) ==
    LET r1 == section(EmptyDict, ld # <<>>, H_loss_distributed, reformat_json(ld))
        r2 == section(r1, lc # <<>>, H_loss_centralized, reformat_json(lc))
        r3 == section(r2, DOMAIN mf # {}, H_metrics_fit, reformat_table(mf))
        r4 == section(r3, DOMAIN mf # {}, H_metrics_distributed, reformat_table(mf))
        r5 == section(r4, DOMAIN mc # {}, H_metrics_centralized, reformat_table(mc))
    IN  r5

\* History.repr_json on the ledger (ld, lc, mf, md, mc)
repr_json_of(ld, lc, mf, md, mc) ==
    LET r1 == section(EmptyDict, ld # <<>>, H_loss_distributed, reformat_json(ld))
        r2 == section(r1, lc # <<>>, H_loss_centralized, reformat_json(lc))
        r3 == section(r2, DOMAIN mf # {}, H_metrics_fit, reformat_table(mf))
        r4 == section(r3, DOMAIN md # {}, H_metrics_distributed, reformat_table(md))
        r5 == section(r4, DOMAIN mc # {}, H_metrics_centralized, reformat_table(mc))
    IN  r5

repr_json == repr_json_of(losses_distributed, losses_centralized,
                          metrics_distributed_fit, metrics_distributed,
                          metrics_centralized)

\* f"\tround {server_round}: {loss}\n"
loss_line(e) == "\tround " \o str(e[1]) \o ": " \o str(e[2]) \o "\n"

\* a loss section of __repr__
loss_block(header, series) ==
    IF series # <<>>
    THEN header \o ":\n" \o reduce_concat([i \in 1 .. Len(series) |-> loss_line(series[i])])
    ELSE ""

\* mutant: the header and dump written without the `if` on the table
metrics_block_unguarded(header, table, tail) ==
    header \o ":\n" \o pformat(table) \o tail

\* a metrics section of __repr__; tail is "\n" for the first two tables
\* and "" for the centralized one
metrics_block(header, table, tail) ==
    IF DOMAIN table # {}
    THEN header \o ":\n" \o pformat(table) \o tail
    ELSE ""

\* mutant: the centralized loss section written before the distributed one
repr_of_swapped(ld, lc, mf, md, mc) ==
    LET r0 == ""
        r1 == r0 \o loss_block(H_loss_centralized, lc)
        r2 == r1 \o loss_block(H_loss_distributed, ld)
        r3 == r2 \o metrics_block(H_metrics_fit, mf, "\n")
        r4 == r3 \o metrics_block(H_metrics_distributed, md, "\n")
        r5 == r4 \o metrics_block(H_metrics_centralized, mc, "")
    IN  r5

\* History.__repr__ on the ledger (ld, lc, mf, md, mc)
repr_of(ld, lc, mf, md, mc) ==
    LET r0 == ""
        r1 == r0 \o loss_block(H_loss_distributed, ld)
        r2 == r1 \o loss_block(H_loss_centralized, lc)
        r3 == r2 \o metrics_block(H_metrics_fit, mf, "\n")
        r4 == r3 \o metrics_block(H_metrics_distributed, md, "\n")
        r5 == r4 \o metrics_block(H_metrics_centralized, mc, "")
    IN  r5

__repr__ == repr_of(losses_distributed, losses_centralized,
                    metrics_distributed_fit, metrics_distributed,
                    metrics_centralized)

\* mutant: the start entry is popped off the stored distributed loss series
call_repr_json_popping ==
    /\ jsonOut' = <<repr_json>>
    /\ losses_distributed' =
           IF losses_distributed # <<>> /\ losses_distributed[1][1] = 0
           THEN Tail(losses_distributed) ELSE losses_distributed
    /\ UNCHANGED <<losses_centralized, metrics_distributed_fit,
                   metrics_distributed, metrics_centralized, reprOut, calls>>

\* a call of repr_json: returns the report, assigns no field
call_repr_json ==
    /\ jsonOut' = <<repr_json>>
    /\ UNCHANGED <<losses_distributed, losses_centralized, metrics_distributed_fit,
                   metrics_distributed, metrics_centralized, reprOut, calls>>

\* a call of __repr__: returns the text, assigns no field
call_repr ==
    /\ reprOut' = <<__repr__>>
    /\ UNCHANGED <<losses_distributed, losses_centralized, metrics_distributed_fit,
                   metrics_distributed, metrics_centralized, jsonOut, calls>>

-----------------------------------------------------------------------------

\* any one of the five append calls
Appends ==
    \/ \E r \in RoundIndex, l \in Scalars : add_loss_distributed(r, l)
    \/ \E r \in RoundIndex, l \in Scalars : add_loss_centralized(r, l)
    \/ \E r \in RoundIndex, m \in MetricsArgs : add_metrics_distributed_fit(r, m)
    \/ \E r \in RoundIndex, m \in MetricsArgs : add_metrics_distributed(r, m)
    \/ \E r \in RoundIndex, m \in MetricsArgs : add_metrics_centralized(r, m)

\* the ledger under its writer: append calls only
Next == Appends

Spec == Init /\ [][Next]_vars

\* the ledger with the two read methods called at any time between appends
NextReads ==
    \/ calls.total < MaxReadCalls /\ Appends
    \/ call_repr_json
    \/ call_repr

SpecReads == Init /\ [][NextReads]_vars

-----------------------------------------------------------------------------
(* Helpers of the properties *)

Tables == <<metrics_distributed_fit, metrics_distributed, metrics_centralized>>

TableCalls == <<calls.fit, calls.evaluate, calls.centralized>>

SeriesLen(table, k) == IF k \in DOMAIN table THEN Len(table[k]) ELSE 0

IsPrefix(s, t) == Len(s) <= Len(t) /\ SubSeq(t, 1, Len(s)) = s

\* the round indices of a series, in stored order
RoundsOf(s) == [i \in 1 .. Len(s) |-> s[i][1]]

\* the values of a series, in stored order
ValuesOf(s) == [i \in 1 .. Len(s) |-> s[i][2]]

\* every series the ledger holds
AllSeries ==
    {losses_distributed, losses_centralized}
        \cup UNION {{Tables[t][k] : k \in DOMAIN Tables[t]} : t \in 1 .. 3}

-----------------------------------------------------------------------------
\* C1: after any sequence of append calls on a ledger that started empty,
\* each loss series is as long as the number of calls made to its append
\* method, and in each metric table the series of a metric name k is as
\* long as the number of calls of that table's append method whose metrics
\* contained k.
C1_LengthEqualsCalls ==
    /\ Len(losses_distributed) = calls.loss_distributed
    /\ Len(losses_centralized) = calls.loss_centralized
    /\ \A t \in 1 .. 3 : \A k \in MetricNames :
           SeriesLen(Tables[t], k) = TableCalls[t][k]

\* three calls, the two metric names of one table called a different number of times
C1_Witness ==
    /\ calls.fit["accuracy"] = 2
    /\ calls.fit["f1"] = 1
    /\ calls.loss_centralized = 1
    /\ calls.total = 3

\* C2: every series is append-only in call order: on every step each loss
\* series and each metric-name series of the state before is a prefix of the
\* same series after, also when round indices arrive out of order or repeat.
C2_AppendOnly ==
    [][/\ IsPrefix(losses_distributed, losses_distributed')
       /\ IsPrefix(losses_centralized, losses_centralized')
       /\ \A k \in DOMAIN metrics_distributed_fit :
              /\ k \in DOMAIN metrics_distributed_fit'
              /\ IsPrefix(metrics_distributed_fit[k], metrics_distributed_fit'[k])
       /\ \A k \in DOMAIN metrics_distributed :
              /\ k \in DOMAIN metrics_distributed'
              /\ IsPrefix(metrics_distributed[k], metrics_distributed'[k])
       /\ \A k \in DOMAIN metrics_centralized :
              /\ k \in DOMAIN metrics_centralized'
              /\ IsPrefix(metrics_centralized[k], metrics_centralized'[k])]_vars

\* rounds appended out of order and repeated are stored as they came: 1, 0, 0
C2_Witness ==
    /\ RoundsOf(losses_distributed) = <<1, 0, 0>>
    /\ ValuesOf(losses_distributed) = <<3, 9, 9>>

\* C3: a metric name once appended to a table stays a key of that table on
\* every later step, and a name appended exactly once is a key whose series
\* has exactly one entry.
C3_KeysPersist ==
    [][/\ DOMAIN metrics_distributed_fit \subseteq DOMAIN metrics_distributed_fit'
       /\ DOMAIN metrics_distributed \subseteq DOMAIN metrics_distributed'
       /\ DOMAIN metrics_centralized \subseteq DOMAIN metrics_centralized'
       /\ \A t \in 1 .. 3 : \A k \in MetricNames :
              /\ TableCalls[t][k]' >= 1 => k \in DOMAIN Tables[t]'
              /\ TableCalls[t][k]' = 1 =>
                     k \in DOMAIN Tables[t]' /\ Len(Tables[t][k]') = 1]_vars

\* f1 was appended once to the evaluate table, which took two other calls without it
C3_Witness ==
    /\ calls.evaluate["f1"] = 1
    /\ calls.evaluate["accuracy"] = 2
    /\ calls.total = 3
    /\ "f1" \in DOMAIN metrics_distributed
    /\ Len(metrics_distributed["f1"]) = 1

\* the round-collapsing transform as the specification words it
Collapsed(s) ==
    IF s[1][1] = 0
    THEN [start |-> s[1][2], rounds |-> Tail(ValuesOf(s))]
    ELSE [rounds |-> ValuesOf(s)]

\* C4: for every non-empty series of (round, numeric value) pairs,
\* reformat_json returns {start: first value, rounds: the remaining values in
\* stored order} when the first stored round index is 0, and {rounds: all
\* values in stored order} otherwise; only the first entry's index decides.
C4_RoundCollapse ==
    \A s \in AllSeries :
        s # <<>> =>
            /\ reformat_json(s) = Collapsed(s)
            /\ DOMAIN reformat_json(s) =
                   (IF s[1][1] = 0 THEN {"start", "rounds"} ELSE {"rounds"})

\* a series whose round 0 is stored second (not split out) beside a
\* one-entry series that starts at round 0 (start with empty rounds)
C4_Witness ==
    /\ RoundsOf(losses_distributed) = <<1, 0>>
    /\ reformat_json(losses_distributed) = [rounds |-> <<3, 9>>]
    /\ losses_centralized = << <<0, 9>> >>
    /\ reformat_json(losses_centralized) = [start |-> 9, rounds |-> <<>>]

\* the section names of the channels that hold something
NonEmptySections ==
    {n \in {H_loss_distributed, H_loss_centralized, H_metrics_fit,
            H_metrics_distributed, H_metrics_centralized} :
        \/ n = H_loss_distributed /\ Len(losses_distributed) > 0
        \/ n = H_loss_centralized /\ Len(losses_centralized) > 0
        \/ n = H_metrics_fit /\ DOMAIN metrics_distributed_fit # {}
        \/ n = H_metrics_distributed /\ DOMAIN metrics_distributed # {}
        \/ n = H_metrics_centralized /\ DOMAIN metrics_centralized # {}}

\* what a metrics section must hold: each metric name of the table mapped
\* to the round-collapsing transform of its series
CollapsedTable(table) == [k \in DOMAIN table |-> reformat_json(table[k])]

\* C5: repr_json holds a section key exactly for the non-empty channels,
\* under the five section names; a loss section is the transform of the loss
\* series, a metrics section maps exactly the table's metric names to the
\* transform of each name's series.
C5_StructuredReport ==
    LET rep == repr_json
    IN  /\ DOMAIN rep = NonEmptySections
        /\ H_loss_distributed \in DOMAIN rep =>
               rep[H_loss_distributed] = reformat_json(losses_distributed)
        /\ H_loss_centralized \in DOMAIN rep =>
               rep[H_loss_centralized] = reformat_json(losses_centralized)
        /\ H_metrics_fit \in DOMAIN rep =>
               rep[H_metrics_fit] = CollapsedTable(metrics_distributed_fit)
        /\ H_metrics_distributed \in DOMAIN rep =>
               rep[H_metrics_distributed] = CollapsedTable(metrics_distributed)
        /\ H_metrics_centralized \in DOMAIN rep =>
               rep[H_metrics_centralized] = CollapsedTable(metrics_centralized)

\* fit metrics accuracy 3 then 9 at round 1 and one centralized loss at round 0
C5_Witness ==
    /\ DOMAIN repr_json = {H_metrics_fit, H_loss_centralized}
    /\ repr_json[H_metrics_fit] = [accuracy |-> [rounds |-> <<3, 9>>]]
    /\ repr_json[H_loss_centralized] = [start |-> 3, rounds |-> <<>>]

\* the lines of a loss section, one per stored entry in stored order, each
\* the given indent, then `round {round_index}: {loss_value}`, then a newline
RECURSIVE LossLines(_, _)
LossLines(series, indent) ==
    IF series = <<>> THEN ""
    ELSE indent \o "round " \o ToString(Head(series)[1]) \o ": "
             \o ToString(Head(series)[2]) \o "\n" \o LossLines(Tail(series), indent)

\* the block of a loss channel: nothing when empty, else header line and lines
LossSection(name, series, indent) ==
    IF series = <<>> THEN "" ELSE name \o ":\n" \o LossLines(series, indent)

\* the block of a metrics channel: nothing when empty, else header line and dump
MetricsSection(name, table, tail) ==
    IF DOMAIN table = {} THEN "" ELSE name \o ":\n" \o pformat(table) \o tail

\* the five blocks in the fixed order
Report(indent) ==
    LossSection(H_loss_distributed, losses_distributed, indent)
        \o LossSection(H_loss_centralized, losses_centralized, indent)
        \o MetricsSection(H_metrics_fit, metrics_distributed_fit, "\n")
        \o MetricsSection(H_metrics_distributed, metrics_distributed, "\n")
        \o MetricsSection(H_metrics_centralized, metrics_centralized, "")

\* C6 as stated: the text report is the concatenation, in the fixed order,
\* of one block per non-empty channel, a loss block being its header line and
\* one line `round {round_index}: {loss_value}` per entry in stored order.
C6_Original == __repr__ = Report("")

\* C6 amended: as C6, each loss line being a tab character, then
\* `round {round_index}: {loss_value}`, then a newline.
C6_TextReport == __repr__ = Report("\t")

\* two distributed losses with rounds out of order and one centralized
\* metric; the three empty channels contribute nothing
C6_Witness ==
    /\ RoundsOf(losses_distributed) = <<1, 0>>
    /\ losses_centralized = <<>>
    /\ DOMAIN metrics_centralized = {"f1"}
    /\ __repr__ = "History (loss, distributed):\n\tround 1: 3\n\tround 0: 9\n"
                      \o "History (metrics, centralized):\n{'f1': [(1, 9)]}"

\* some append call that stores something has been made
SomethingAppended ==
    \/ calls.loss_distributed > 0
    \/ calls.loss_centralized > 0
    \/ \E t \in 1 .. 3 : \E k \in MetricNames : TableCalls[t][k] > 0

\* C7: on a fresh ledger the text report is the empty string and the
\* structured report the empty mapping; after a loss append or a metrics
\* append with a non-empty mapping neither is empty.
C7_EmptyIffFresh ==
    /\ calls.total = 0 => __repr__ = "" /\ repr_json = EmptyDict
    /\ SomethingAppended => __repr__ # "" /\ DOMAIN repr_json # {}

\* one metrics append with a non-empty mapping and nothing else
C7_Witness ==
    /\ calls.total = 1
    /\ calls.centralized["f1"] = 1
    /\ __repr__ # ""
    /\ DOMAIN repr_json = {H_metrics_centralized}

\* C8: a call of __repr__ or repr_json leaves the two loss series and the
\* three metric tables unchanged and returns the projection of that state,
\* so a second call with no append in between returns the same result.
C8_ReadsPure ==
    [][(reprOut' # <<>> \/ jsonOut' # <<>>) =>
          /\ UNCHANGED ledger
          /\ reprOut' # <<>> => reprOut' = <<__repr__>>
          /\ jsonOut' # <<>> => jsonOut' = <<repr_json>>
          /\ (reprOut # <<>> /\ reprOut' # <<>>) => reprOut' = reprOut
          /\ (jsonOut # <<>> /\ jsonOut' # <<>>) => jsonOut' = jsonOut]_vars

\* both reads were called after two appends
C8_Witness ==
    /\ calls.total = 2
    /\ RoundsOf(losses_distributed) = <<0>>
    /\ DOMAIN metrics_centralized = MetricNames
    /\ reprOut = <<__repr__>>
    /\ jsonOut = <<repr_json>>

MetricsSections == {H_metrics_fit, H_metrics_distributed, H_metrics_centralized}

\* C9: every key of a metric table maps to a series with at least one entry,
\* so repr_json never applies reformat_json to an empty series: no section
\* and no metric name of a section holds the index fault.
C9_NoEmptySeries ==
    LET rep == repr_json
    IN  /\ \A t \in 1 .. 3 : \A k \in DOMAIN Tables[t] : Len(Tables[t][k]) >= 1
        /\ \A n \in DOMAIN rep :
               /\ rep[n] # IndexError
               /\ n \in MetricsSections =>
                      \A x \in DOMAIN rep[n] : rep[n][x] # IndexError

\* a table whose two keys were created by different calls
C9_Witness ==
    /\ DOMAIN metrics_distributed_fit = MetricNames
    /\ Len(metrics_distributed_fit["accuracy"]) = 1
    /\ Len(metrics_distributed_fit["f1"]) = 2
    /\ DOMAIN repr_json[H_metrics_fit] = MetricNames

\* a table after an append of metrics at server_round, as the claim words it
Grown(table, server_round, metrics) ==
    [k \in (DOMAIN table) \cup (DOMAIN metrics) |->
        IF k \in DOMAIN metrics
        THEN (IF k \in DOMAIN table THEN table[k] ELSE <<>>)
                 \o << <<server_round, metrics[k]>> >>
        ELSE table[k]]

\* C10: the five append channels are independent: a loss append grows its
\* own series by the one pair and leaves the other four channels unchanged;
\* a metrics append grows, in its own table only, the series of every key of
\* the mapping by (round_index, m[k]) and leaves every other series and
\* channel unchanged; with an empty mapping it changes nothing.
C10_Frame ==
    [][/\ \A r \in RoundIndex, l \in Scalars :
              add_loss_distributed(r, l) =>
                  /\ losses_distributed' = losses_distributed \o << <<r, l>> >>
                  /\ UNCHANGED <<losses_centralized, metrics_distributed_fit,
                                 metrics_distributed, metrics_centralized>>
       /\ \A r \in RoundIndex, l \in Scalars :
              add_loss_centralized(r, l) =>
                  /\ losses_centralized' = losses_centralized \o << <<r, l>> >>
                  /\ UNCHANGED <<losses_distributed, metrics_distributed_fit,
                                 metrics_distributed, metrics_centralized>>
       /\ \A r \in RoundIndex, m \in MetricsArgs :
              add_metrics_distributed_fit(r, m) =>
                  /\ metrics_distributed_fit' = Grown(metrics_distributed_fit, r, m)
                  /\ UNCHANGED <<losses_distributed, losses_centralized,
                                 metrics_distributed, metrics_centralized>>
                  /\ m = EmptyDict => UNCHANGED ledger
       /\ \A r \in RoundIndex, m \in MetricsArgs :
              add_metrics_distributed(r, m) =>
                  /\ metrics_distributed' = Grown(metrics_distributed, r, m)
                  /\ UNCHANGED <<losses_distributed, losses_centralized,
                                 metrics_distributed_fit, metrics_centralized>>
                  /\ m = EmptyDict => UNCHANGED ledger
       /\ \A r \in RoundIndex, m \in MetricsArgs :
              add_metrics_centralized(r, m) =>
                  /\ metrics_centralized' = Grown(metrics_centralized, r, m)
                  /\ UNCHANGED <<losses_distributed, losses_centralized,
                                 metrics_distributed_fit, metrics_distributed>>
                  /\ m = EmptyDict => UNCHANGED ledger]_vars

\* an evaluate-metrics append on one key beside a fit table and a loss series
C10_Witness ==
    /\ calls.total = 3
    /\ calls.evaluate["f1"] = 1
    /\ DOMAIN metrics_distributed = {"f1"}
    /\ DOMAIN metrics_distributed_fit = {"accuracy"}
    /\ Len(losses_distributed) = 1

====
